---- MODULE Spec2Model ----
(***************************************************************************)
(* h2alagut: an HTTP/2 request engine with optional HTTP CONNECT           *)
(* tunnelling.  The model follows one h2Request call per request id:       *)
(* getSocket (direct TCP or proxy CONNECT), the TLS handshake with ALPN,   *)
(* the session adapter (HTTP/2 session or HTTP/1.1 request), the request   *)
(* itself and the handlers that settle the caller's promise.               *)
(*                                                                         *)
(* One action is one callback of the event loop together with the promise  *)
(* reactions (microtasks) it triggers: no other callback can run between a *)
(* resolve()/reject() and the continuation awaiting it.                    *)
(***************************************************************************)
EXTENDS Integers, Sequences, FiniteSets, TLC

VARIABLES
    call,             \* the arguments of each h2Request call
    pc,               \* where each call stands
    result,           \* the promise h2Request returned to its caller
    netlog,           \* network operations started by the call, in order
    socket,           \* the raw socket getSocket obtained
    session,          \* the client createHttp2Session resolved with
    sent,             \* what was handed to the transport as the request
    stream,           \* the request object `req` the handlers are attached to
    responseHeaders,  \* `responseHeaders` captured by the response handler
    statusCode,       \* `statusCode` captured on the HTTP/1.1 path
    chunks,           \* `chunks` pushed by the data handler
    signal,           \* the caller's AbortSignal and the listener on it
    connectOptions,   \* the options of the CONNECT request sent to the proxy
    fetch             \* the response object the fetch layer hands to its caller

vars == <<call, pc, result, netlog, socket, session, sent, stream,
          responseHeaders, statusCode, chunks, signal, connectOptions, fetch>>

-----------------------------------------------------------------------------
(* Strings *)

\* String.prototype.includes
Includes(s, sub) ==
    \E i \in 1..(Len(s) - Len(sub) + 1) : SubSeq(s, i, i + Len(sub) - 1) = sub

\* String.prototype.startsWith
StartsWith(s, prefix) ==
    Len(s) >= Len(prefix) /\ SubSeq(s, 1, Len(prefix)) = prefix

\* String.prototype.split(":"): the segments between the colons
RECURSIVE SplitFrom(_, _, _)
SplitFrom(s, i, start) ==
    IF i > Len(s) THEN <<SubSeq(s, start, Len(s))>>
    ELSE IF SubSeq(s, i, i) = ":"
         THEN <<SubSeq(s, start, i - 1)>> \o SplitFrom(s, i + 1, i + 1)
         ELSE SplitFrom(s, i + 1, start)

split(s) == SplitFrom(s, 1, 1)

\* the value JavaScript reads for an absent property or argument, where the
\* property is a string
Undefined == "<undefined>"

\* the value read for an absent numeric property (statusCode, status)
UndefinedNum == -1

-----------------------------------------------------------------------------
(* Inputs of a call *)

\* new URL(url): the fields h2Request and getSocket read.  An https URL on
\* port 443 parses to port "".
URLs == {"https://example.com/a?x=1", "https://example.com:8443/", "invalid-url"}

\* a parser that resolves a string without scheme against the target's origin
ParseURLRelative(url) ==
    CASE url = "https://example.com:8443/" ->
            [valid |-> TRUE, protocol |-> "https:", hostname |-> "example.com",
             port |-> "8443", host |-> "example.com:8443", pathname |-> "/",
             search |-> ""]
      [] OTHER ->
            [valid |-> TRUE, protocol |-> "https:", hostname |-> "example.com",
             port |-> "", host |-> "example.com", pathname |-> "/a",
             search |-> "?x=1"]

ParseURL(url) ==
    CASE url = "https://example.com/a?x=1" ->
            [valid |-> TRUE, protocol |-> "https:", hostname |-> "example.com",
             port |-> "", host |-> "example.com", pathname |-> "/a",
             search |-> "?x=1"]
      [] url = "https://example.com:8443/" ->
            [valid |-> TRUE, protocol |-> "https:", hostname |-> "example.com",
             port |-> "8443", host |-> "example.com:8443", pathname |-> "/",
             search |-> ""]
      [] OTHER ->
            [valid |-> FALSE, protocol |-> "", hostname |-> "", port |-> "",
             host |-> "", pathname |-> "", search |-> ""]

Methods == {"GET", "POST"}

\* caller header maps (Record<string, string>), as functions from name to value
NoHeaders == [n \in {} |-> ""]
HeaderMaps ==
    {NoHeaders,
     [n \in {"accept"} |-> "text/plain"],
     [n \in {":method", "accept"} |-> IF n = ":method" THEN "DELETE" ELSE "*/*"]}

\* body: undefined, the empty string and a non-empty string
Bodies == {Undefined, "", "payload"}

\* ProxyConfig.  auth "" and timeout 0 stand for the absent optional fields:
\* the code tests both for truthiness only.
NoProxy == [present |-> FALSE, host |-> "", port |-> 0, auth |-> "", timeout |-> 0]
ProxyHosts == {"", "proxy.local"}
ProxyPorts == {0, 8080}
ProxyAuths == {"", "user:pass", "userpass", "user:pa:ss", ":pass", "user:"}
ProxyTimeouts == {0, 50}
ProxyConfigs ==
    {NoProxy} \cup
    [present : {TRUE}, host : ProxyHosts, port : ProxyPorts,
     auth : ProxyAuths, timeout : ProxyTimeouts]

\* The repository holds two h2Request/createHttp2Session pairs: the one of
\* src/adapter.ts, which falls back to HTTP/1.1, and the one that follows
\* fetchAdapter in src/fetchAdapter.ts, which speaks HTTP/2 only.  impl names
\* the module whose h2Request is called.
Impls == {"adapter", "fetchAdapter"}

\* h2Request is called by the fetch layer of its module or directly
Entries == {"h2Request", "fetchAdapter"}

\* init.timeout of a fetchAdapter call; 0 is an init without timeout
FetchTimeouts == {0, 50}

\* signal: an AbortSignal is passed to h2Request or not; timeout and
\* initSignal: the init.timeout of a call through the fetch layer, and
\* whether its init carries an AbortSignal of the caller
CallInput ==
    [impl : Impls, via : Entries, url : URLs, method : Methods,
     headers : HeaderMaps, body : Bodies, proxy : ProxyConfigs, signal : BOOLEAN,
     timeout : FetchTimeouts, initSignal : BOOLEAN]

\* The calls explored: every request-building input with the plain
\* environment, every proxy/signal input with the plain request, every
\* incomplete proxy configuration with every URL, and the plain request
\* made through the fetch layer, with and without init.timeout, directly
\* and through one proxy.  The fetch layer passes its own controller's
\* signal to h2Request exactly when init.timeout is set.
BaseURL == "https://example.com/a?x=1"
\* the init.proxy of the calls made through the fetch layer
FetchProxy ==
    [present |-> TRUE, host |-> "proxy.local", port |-> 8080, auth |-> "",
     timeout |-> 50]
CallInputs ==
    {c \in CallInput :
        \/ /\ c.via = "h2Request"
           /\ c.timeout = 0 /\ ~c.initSignal
           /\ \/ c.proxy = NoProxy /\ c.signal = FALSE
              \/ /\ c.url = BaseURL /\ c.method = "GET"
                 /\ c.headers = NoHeaders /\ c.body = Undefined
              \/ /\ c.proxy.present
                 /\ (c.proxy.host = "" \/ c.proxy.port = 0)
                 /\ c.method = "GET" /\ c.headers = NoHeaders
                 /\ c.body = Undefined /\ c.signal = FALSE
        \/ /\ c.via = "fetchAdapter"
           /\ c.method = "GET" /\ c.headers = NoHeaders
           /\ c.body = Undefined
           /\ \/ c.url = BaseURL /\ c.proxy = NoProxy
              \/ c.url = BaseURL /\ c.proxy = FetchProxy /\ ~c.initSignal
              \/ c.url = "invalid-url" /\ c.proxy = NoProxy /\ ~c.initSignal
           /\ c.signal = (c.timeout # 0)}

-----------------------------------------------------------------------------
(* Values of the state *)

NoResponse ==
    [status |-> UndefinedNum, headers |-> NoHeaders, rawBody |-> <<>>,
     bodyText |-> <<>>, remoteAddress |-> Undefined]

Pending == [state |-> "pending", error |-> "", response |-> NoResponse]
NotCalled == [state |-> "none", error |-> "", response |-> NoResponse]

\* reject(new Error(msg)) / a throw inside the async function: a promise
\* settles once, later calls are ignored
Rejected(p, msg) ==
    IF p.state = "pending"
    THEN [state |-> "rejected", error |-> msg, response |-> NoResponse]
    ELSE p

\* resolve(response)
Resolved(p, resp) ==
    IF p.state = "pending"
    THEN [state |-> "resolved", error |-> "", response |-> resp]
    ELSE p

\* socket: the raw socket with the _remoteAddress tag, the status of the
\* CONNECT response it came with (0: none) and, once the handshake is done,
\* tlsSocket.alpnProtocol
\* failedAt and reason record the event that failed the establishment
\* ("connect", "connect timeout" or "tls") and the message it carried
NoSocket ==
    [state |-> "none", remoteAddress |-> Undefined, status |-> 0,
     alpnProtocol |-> Undefined, failedAt |-> "", reason |-> ""]
NoSession == [kind |-> "none", closeCalls |-> 0]
NothingSent ==
    [kind |-> "none", method |-> Undefined, path |-> Undefined,
     headers |-> NoHeaders, body |-> Undefined, ended |-> FALSE]
NoConnectOptions ==
    [host |-> "", port |-> 0, method |-> "", path |-> "", headers |-> NoHeaders,
     timeout |-> 0]
\* destroyedBy: which callback called req.destroy ("timeout" or "abort");
\* received: the chunks the transport delivered, in arrival order; ended: the
\* response message is complete
\* decodes counts the runs of a decoder (gunzipSync, inflateSync,
\* brotliDecompressSync) on the body of the request
NoStream ==
    [state |-> "none", error |-> "", headersSeen |-> FALSE, destroyedBy |-> "",
     received |-> <<>>, ended |-> FALSE, decodes |-> 0]
OpenStream ==
    [state |-> "open", error |-> "", headersSeen |-> FALSE, destroyedBy |-> "",
     received |-> <<>>, ended |-> FALSE, decodes |-> 0]
\* abortedIn: where the call stood when the signal aborted; initAbortedIn:
\* "in flight" once the caller's init.signal has aborted while the request
\* was open and the promise pending
NoSignal ==
    [aborted |-> FALSE, listener |-> FALSE, abortedIn |-> "", initAbortedIn |-> ""]

\* null / undefined where a Buffer or a string is expected
Null == <<-1>>

NoJson == [state |-> "none", value |-> 0, message |-> ""]

\* The response object and what its closures hold.  rawBuffer and bodyText
\* are the caches of text(); reads counts the times the body was fetched
\* from h2res, pushes the response.push(data) calls; headers is
\* response.headers and props the properties set on the response object
\* itself under a header's name; history is the
\* caller's method calls; text, json and buffer are what the last call of
\* each method returned, textStable whether all text() calls agreed.
NoFetch ==
    [state |-> "none", h2res |-> NoResponse, status |-> UndefinedNum,
     statusCode |-> UndefinedNum, rawBuffer |-> Null, bodyText |-> <<>>,
     reads |-> 0, pushes |-> 0, history |-> <<>>, text |-> Null,
     textStable |-> TRUE, json |-> NoJson, buffer |-> Null,
     headers |-> NoHeaders, props |-> NoHeaders]

Requests == {"r1"}

Init ==
    /\ call \in [Requests -> CallInputs]
    /\ pc = [r \in Requests |-> "idle"]
    /\ result = [r \in Requests |-> NotCalled]
    /\ netlog = [r \in Requests |-> <<>>]
    /\ socket = [r \in Requests |-> NoSocket]
    /\ session = [r \in Requests |-> NoSession]
    /\ sent = [r \in Requests |-> NothingSent]
    /\ connectOptions = [r \in Requests |-> NoConnectOptions]
    /\ stream = [r \in Requests |-> NoStream]
    /\ responseHeaders = [r \in Requests |-> NoHeaders]
    /\ statusCode = [r \in Requests |-> UndefinedNum]
    /\ chunks = [r \in Requests |-> <<>>]
    /\ signal = [r \in Requests |-> NoSignal]
    /\ fetch = [r \in Requests |-> NoFetch]

-----------------------------------------------------------------------------
(* Buffer.from(s).toString("base64") *)

\* the UTF-8 byte of a character of a credential: digits and ":" (48..58),
\* upper case (65..90) and lower case letters (97..122)
IndexIn(table, c) == CHOOSE i \in 1..Len(table) : SubSeq(table, i, i) = c

CharCode(c) ==
    IF Includes("0123456789:", c) THEN 47 + IndexIn("0123456789:", c)
    ELSE IF Includes("ABCDEFGHIJKLMNOPQRSTUVWXYZ", c)
         THEN 64 + IndexIn("ABCDEFGHIJKLMNOPQRSTUVWXYZ", c)
         ELSE 96 + IndexIn("abcdefghijklmnopqrstuvwxyz", c)

Base64Alphabet ==
    "ABCDEFGHIJKLMNOPQRSTUVWXYZabcdefghijklmnopqrstuvwxyz0123456789+/"

Base64Char(n) == SubSeq(Base64Alphabet, n + 1, n + 1)

RECURSIVE Base64From(_, _)
Base64From(s, i) ==
    IF i > Len(s) THEN ""
    ELSE LET b1 == CharCode(SubSeq(s, i, i))
             b2 == IF i + 1 <= Len(s) THEN CharCode(SubSeq(s, i + 1, i + 1)) ELSE 0
             b3 == IF i + 2 <= Len(s) THEN CharCode(SubSeq(s, i + 2, i + 2)) ELSE 0
             n  == b1 * 65536 + b2 * 256 + b3
         IN  Base64Char(n \div 262144)
             \o Base64Char((n \div 4096) % 64)
             \o (IF i + 1 <= Len(s) THEN Base64Char((n \div 64) % 64) ELSE "=")
             \o (IF i + 2 <= Len(s) THEN Base64Char(n % 64) ELSE "=")
             \o Base64From(s, i + 3)

Base64(s) == Base64From(s, 1)

-----------------------------------------------------------------------------
(* getSocket: validation and the start of the socket acquisition *)

\* `${targetUrl.hostname}:${targetUrl.port || 443}`
TunnelPath(targetUrl) ==
    targetUrl.hostname \o ":" \o (IF targetUrl.port # "" THEN targetUrl.port ELSE "443")

\* const [username, password] = auth.split(":")
AuthParts(auth) ==
    LET parts == split(auth)
    IN  [username |-> parts[1],
         password |-> IF Len(parts) >= 2 THEN parts[2] ELSE Undefined]

\* !username || !password
\* a check that looks at the password only
AuthMalformedPasswordOnly(auth) ==
    LET a == AuthParts(auth)
    IN  a.password = "" \/ a.password = Undefined

AuthMalformed(auth) ==
    LET a == AuthParts(auth)
    IN  a.username = "" \/ a.password = "" \/ a.password = Undefined

ProxyAuthorization(auth) ==
    LET a == AuthParts(auth)
    IN  "Basic " \o Base64(a.username \o ":" \o a.password)

\* the CONNECT request getSocket builds; 30000 is the timeout it arms
ConnectOptionsFor(targetUrl, proxyConfig) ==
    [host |-> proxyConfig.host, port |-> proxyConfig.port, method |-> "CONNECT",
     path |-> TunnelPath(targetUrl),
     headers |->
        IF proxyConfig.auth # ""
        THEN ("Proxy-Authorization" :> ProxyAuthorization(proxyConfig.auth))
             @@ ("Proxy-Connection" :> "Keep-Alive")
             @@ ("Host" :> TunnelPath(targetUrl))
        ELSE NoHeaders,
     timeout |-> 30000]

\* getSocket with a validation that tests the host only
getSocketHostOnly(targetUrl, proxyConfig) ==
    IF proxyConfig.present
    THEN IF proxyConfig.host = ""
         THEN [step |-> "reject", error |-> "Proxy configuration is incomplete"]
         ELSE IF proxyConfig.auth # "" /\ AuthMalformed(proxyConfig.auth)
              THEN [step |-> "reject",
                    error |-> "Invalid proxy authentication format. Expected \"username:password\""]
              ELSE [step |-> "connect", error |-> ""]
    ELSE [step |-> "tcp", error |-> ""]

\* The synchronous part of getSocket: what it rejects with, or which network
\* operation it starts.
getSocket(targetUrl, proxyConfig) ==
    IF proxyConfig.present
    THEN IF proxyConfig.host = "" \/ proxyConfig.port = 0
         THEN [step |-> "reject", error |-> "Proxy configuration is incomplete"]
         ELSE IF proxyConfig.auth # "" /\ AuthMalformed(proxyConfig.auth)
              THEN [step |-> "reject",
                    error |-> "Invalid proxy authentication format. Expected \"username:password\""]
              ELSE [step |-> "connect", error |-> ""]
    ELSE [step |-> "tcp", error |-> ""]

-----------------------------------------------------------------------------
(* h2Request: session establishment *)

\* a catch block that rejects but leaves the call where it stood
SessionCreationFailedGoesOn(r, msg) ==
    /\ result' = [result EXCEPT
                    ![r] = Rejected(Pending, "HTTP/2 session creation failed: " \o msg)]
    /\ pc' = pc

\* the catch block of h2Request: client is still null, nothing is closed
SessionCreationFailed(r, msg) ==
    /\ result' = [result EXCEPT
                    ![r] = Rejected(Pending, "HTTP/2 session creation failed: " \o msg)]
    /\ pc' = [pc EXCEPT ![r] = "failed"]

\* h2Request is called: new URL(url), then createHttp2Session -> getSocket.
h2Request(r) ==
    /\ pc[r] = "idle"
    /\ call[r].impl = "adapter"
    /\ LET targetUrl == ParseURL(call[r].url)
           proxy == call[r].proxy
           s == getSocket(targetUrl, proxy)
       IN  IF ~targetUrl.valid
           THEN /\ result' = [result EXCEPT ![r] = Rejected(Pending, "Invalid URL")]
                /\ pc' = [pc EXCEPT ![r] = "failed"]
                /\ UNCHANGED <<netlog, socket, connectOptions>>
           ELSE CASE s.step = "reject" ->
                       /\ SessionCreationFailed(r, s.error)
                       /\ UNCHANGED <<netlog, socket, connectOptions>>
                  [] s.step = "connect" ->
                       /\ connectOptions' =
                            [connectOptions EXCEPT ![r] = ConnectOptionsFor(targetUrl, proxy)]
                       /\ netlog' = [netlog EXCEPT ![r] = Append(@, "http.request CONNECT")]
                       /\ pc' = [pc EXCEPT ![r] = "connect"]
                       /\ result' = [result EXCEPT ![r] = Pending]
                       /\ UNCHANGED socket
                  [] s.step = "tcp" ->
                       /\ netlog' = [netlog EXCEPT ![r] = Append(@, "net.connect")]
                       /\ socket' = [socket EXCEPT ![r].state = "connecting"]
                       /\ pc' = [pc EXCEPT ![r] = "tcp"]
                       /\ result' = [result EXCEPT ![r] = Pending]
                       /\ UNCHANGED connectOptions
    /\ UNCHANGED <<call, fetch, session, sent, stream, responseHeaders, statusCode,
                   chunks, signal>>

\* tls.connect({socket, servername, ALPNProtocols}) in the then-callback
StartTls(r) ==
    /\ netlog' = [netlog EXCEPT ![r] = Append(@, "tls.connect")]
    /\ pc' = [pc EXCEPT ![r] = "tls"]

\* status codes a proxy answers the CONNECT request with
ConnectStatuses == {200, 204, 403, 407}
\* the proxy address the CONNECT request's socket reports
ProxyAddress == "10.0.0.1"
\* messages of transport-level errors
TransportErrors == {"connect ECONNREFUSED", "socket hang up"}

\* a connect handler that takes every 2xx status for a tunnel
ConnectOutcomeAny2xx(status) ==
    IF status \notin 200..299
    THEN IF status = 407
         THEN "Proxy authentication failed"
         ELSE "Tunnel establishment failed with status code " \o ToString(status)
    ELSE ""

\* the connect handler's decision on res.statusCode: the error it rejects
\* with, or "" when it resolves with the socket
ConnectOutcome(status) ==
    IF status # 200
    THEN IF status = 407
         THEN "Proxy authentication failed"
         ELSE "Tunnel establishment failed with status code " \o ToString(status)
    ELSE ""

\* req.on("connect", (res, socket) => ...)
ConnectResponse(r, status) ==
    /\ pc[r] = "connect"
    /\ call[r].impl = "adapter"
    /\ IF ConnectOutcome(status) # ""
       THEN /\ socket' = [socket EXCEPT ![r].state = "destroyed", ![r].status = status]
            /\ SessionCreationFailed(r, ConnectOutcome(status))
            /\ UNCHANGED netlog
       ELSE /\ socket' = [socket EXCEPT ![r].state = "open", ![r].status = status,
                                        ![r].remoteAddress = ProxyAddress]
            /\ StartTls(r)
            /\ UNCHANGED result
    /\ UNCHANGED <<call, fetch, session, sent, stream, responseHeaders, statusCode,
                   chunks, signal, connectOptions>>

\* req.on("error", ...) of the CONNECT request
ConnectError(r, msg) ==
    /\ pc[r] = "connect"
    /\ call[r].impl = "adapter"
    /\ SessionCreationFailed(r, "Proxy connection failed: " \o msg)
    /\ socket' = [socket EXCEPT ![r].failedAt = "connect", ![r].reason = msg]
    /\ UNCHANGED <<call, fetch, netlog, session, sent, stream, responseHeaders,
                   statusCode, chunks, signal, connectOptions>>

\* req.setTimeout(30000, ...): destroys the CONNECT request, whose error
\* event then runs the error handler
ConnectTimeout(r) ==
    /\ pc[r] = "connect"
    /\ call[r].impl = "adapter"
    /\ SessionCreationFailed(r, "Proxy connection failed: " \o "CONNECT request timed out")
    /\ socket' = [socket EXCEPT ![r].failedAt = "connect timeout", ![r].reason = "CONNECT request timed out"]
    /\ UNCHANGED <<call, fetch, netlog, session, sent, stream, responseHeaders,
                   statusCode, chunks, signal, connectOptions>>

\* socket.on("connect", () => resolve(socket)) of the direct connection
TcpConnect(r) ==
    /\ pc[r] = "tcp"
    /\ socket' = [socket EXCEPT ![r].state = "open"]
    /\ StartTls(r)
    /\ UNCHANGED <<call, fetch, result, session, sent, stream, responseHeaders,
                   statusCode, chunks, signal, connectOptions>>

\* socket.on("error", reject) of the direct connection
TcpError(r, msg) ==
    /\ pc[r] = "tcp"
    /\ socket' = [socket EXCEPT ![r].state = "destroyed"]
    /\ SessionCreationFailed(r, msg)
    /\ UNCHANGED <<call, fetch, netlog, session, sent, stream, responseHeaders,
                   statusCode, chunks, signal, connectOptions>>

\* tlsSocket.on("error", ...) before secureConnect.  The handler only
\* rejects; the error event of a handshake that fails is emitted by Node's
\* destroy of the TLSSocket, which closes the socket it wraps.
TlsError(r, msg) ==
    /\ pc[r] = "tls"
    /\ SessionCreationFailed(r, "TLS handshake failed: " \o msg)
    /\ socket' = [socket EXCEPT ![r].state = "destroyed", ![r].failedAt = "tls",
                                ![r].reason = msg]
    /\ UNCHANGED <<call, fetch, netlog, session, sent, stream, responseHeaders,
                   statusCode, chunks, signal, connectOptions>>

-----------------------------------------------------------------------------
(* h2Request: building and sending the request *)

\* JavaScript truthiness of an optional string
Truthy(v) == v # Undefined /\ v # ""

\* property read on a header object
Get(h, n) == IF n \in DOMAIN h THEN h[n] ELSE Undefined

\* object spread {...a, ...b}: a key of b replaces the same key of a
Spread(a, b) == [n \in DOMAIN a \cup DOMAIN b |-> IF n \in DOMAIN b THEN b[n] ELSE a[n]]

\* the four pseudo-headers h2Request writes first
PseudoHeaders(method, targetUrl) ==
    (":method" :> method)
    @@ (":path" :> targetUrl.pathname \o targetUrl.search)
    @@ (":scheme" :> SubSeq(targetUrl.protocol, 1, Len(targetUrl.protocol) - 1))
    @@ (":authority" :> targetUrl.host)

\* the object passed to safeClient.request(...)
H2RequestHeaders(method, targetUrl, headers) ==
    Spread(PseudoHeaders(method, targetUrl), headers)

\* HTTP/2 branch: safeClient.request(...), if (body) req.write(body), req.end()
H2Send(c) ==
    LET hdrs == H2RequestHeaders(c.method, ParseURL(c.url), c.headers)
    IN  [kind |-> "h2", method |-> hdrs[":method"], path |-> hdrs[":path"],
         headers |-> hdrs,
         body |-> IF Truthy(c.body) THEN c.body ELSE Undefined,
         ended |-> TRUE]

\* HTTP/1.1 branch: the request is the one createHttp2Session built with
\* https.request({host, port, createConnection}), so method, path and
\* headers are Node's defaults; h2Request only calls req.end().
H1Send(c) ==
    [kind |-> "h1", method |-> "GET", path |-> "/", headers |-> NoHeaders,
     body |-> Undefined, ended |-> TRUE]

\* what the TLS handshake negotiates: tlsSocket.alpnProtocol ("false" is the
\* value false, no protocol negotiated)
AlpnResults == {"h2", "http/1.1", "false"}

\* tlsSocket.on("secureConnect", ...) resolves createHttp2Session; the
\* continuation of h2Request then sends the request and installs the
\* response, data, end and error handlers, the timeout and the abort listener.
SecureConnect(r, alpn) ==
    /\ pc[r] = "tls"
    /\ call[r].impl = "adapter"
    /\ pc' = [pc EXCEPT ![r] = "request"]
    /\ IF alpn = "h2"
       THEN /\ session' = [session EXCEPT ![r] = [kind |-> "h2", closeCalls |-> 0]]
            /\ netlog' = [netlog EXCEPT
                            ![r] = @ \o <<"http2.connect", "session.request">>]
            /\ sent' = [sent EXCEPT ![r] = H2Send(call[r])]
       ELSE /\ session' = [session EXCEPT ![r] = [kind |-> "h1", closeCalls |-> 0]]
            /\ netlog' = [netlog EXCEPT ![r] = Append(@, "https.request")]
            /\ sent' = [sent EXCEPT ![r] = H1Send(call[r])]
    /\ stream' = [stream EXCEPT ![r] = OpenStream]
    /\ signal' = [signal EXCEPT ![r].listener = call[r].signal]
    /\ socket' = [socket EXCEPT ![r].alpnProtocol = alpn]
    /\ UNCHANGED <<call, fetch, result, responseHeaders, statusCode, chunks,
                   connectOptions>>

-----------------------------------------------------------------------------
(* src/fetchAdapter.ts: createHttp2Session and session establishment *)

\* the CONNECT request this createHttp2Session builds; the timeout it arms
\* is proxyConfig.timeout, when set
faConnectOptionsFor(targetUrl, proxyConfig) ==
    [host |-> proxyConfig.host, port |-> proxyConfig.port, method |-> "CONNECT",
     path |-> TunnelPath(targetUrl),
     headers |->
        IF proxyConfig.auth # ""
        THEN ("Proxy-Authorization" :> ProxyAuthorization(proxyConfig.auth))
        ELSE NoHeaders,
     timeout |-> proxyConfig.timeout]

\* The synchronous part of createHttp2Session: without a proxy it resolves at
\* once with http2.connect(targetUrl.origin); with one it validates the
\* configuration and starts the CONNECT request.
faCreateHttp2Session(targetUrl, proxyConfig) ==
    IF ~proxyConfig.present
    THEN [step |-> "session", error |-> ""]
    ELSE IF proxyConfig.host = "" \/ proxyConfig.port = 0
         THEN [step |-> "reject",
               error |-> "Proxy configuration is incomplete. Both HOST and PORT must be set"]
         ELSE IF proxyConfig.auth # "" /\ AuthMalformed(proxyConfig.auth)
              THEN [step |-> "reject",
                    error |-> "Invalid proxy authentication format. Expected \"username:password\""]
              ELSE [step |-> "connect", error |-> ""]

\* the continuation of this h2Request once the session exists: client.request
\* with the same header object, body and end, then the handlers and listener
faSendRequest(r) ==
    /\ pc' = [pc EXCEPT ![r] = "request"]
    /\ session' = [session EXCEPT ![r] = [kind |-> "h2", closeCalls |-> 0]]
    /\ netlog' = [netlog EXCEPT ![r] = @ \o <<"http2.connect", "session.request">>]
    /\ sent' = [sent EXCEPT ![r] = H2Send(call[r])]
    /\ stream' = [stream EXCEPT ![r] = OpenStream]
    /\ signal' = [signal EXCEPT ![r].listener = call[r].signal]

\* h2Request of src/fetchAdapter.ts is called
faH2Request(r) ==
    /\ pc[r] = "idle"
    /\ call[r].impl = "fetchAdapter"
    /\ LET targetUrl == ParseURL(call[r].url)
           proxy == call[r].proxy
           s == faCreateHttp2Session(targetUrl, proxy)
       IN  IF ~targetUrl.valid
           THEN /\ result' = [result EXCEPT ![r] = Rejected(Pending, "Invalid URL")]
                /\ pc' = [pc EXCEPT ![r] = "failed"]
                /\ UNCHANGED <<netlog, session, sent, stream, signal, connectOptions>>
           ELSE CASE s.step = "reject" ->
                       /\ SessionCreationFailed(r, s.error)
                       /\ UNCHANGED <<netlog, session, sent, stream, signal,
                                      connectOptions>>
                  [] s.step = "connect" ->
                       /\ connectOptions' =
                            [connectOptions EXCEPT ![r] = faConnectOptionsFor(targetUrl, proxy)]
                       /\ netlog' = [netlog EXCEPT ![r] = Append(@, "http.request CONNECT")]
                       /\ pc' = [pc EXCEPT ![r] = "connect"]
                       /\ result' = [result EXCEPT ![r] = Pending]
                       /\ UNCHANGED <<session, sent, stream, signal>>
                  [] s.step = "session" ->
                       /\ faSendRequest(r)
                       /\ result' = [result EXCEPT ![r] = Pending]
                       /\ UNCHANGED connectOptions
    /\ UNCHANGED <<call, fetch, socket, responseHeaders, statusCode, chunks>>

\* res.statusMessage of the proxy's answer
StatusMessage(status) ==
    CASE status = 200 -> "Connection established"
      [] status = 204 -> "No Content"
      [] status = 403 -> "Forbidden"
      [] status = 407 -> "Proxy Authentication Required"

\* the connect handler's decision on res.statusCode: the error it rejects
\* with, or "" when it goes on to the TLS handshake
faConnectOutcome(status) ==
    IF status = 407
    THEN "Proxy authentication failed. Status code: " \o ToString(status)
         \o ", Message: " \o StatusMessage(status)
    ELSE IF status # 200
         THEN "Tunnel establishment failed. Status code: " \o ToString(status)
              \o ", Message: " \o StatusMessage(status)
         ELSE ""

\* req.on("connect", (res, socket) => ...)
faConnectResponse(r, status) ==
    /\ pc[r] = "connect"
    /\ call[r].impl = "fetchAdapter"
    /\ IF faConnectOutcome(status) # ""
       THEN /\ socket' = [socket EXCEPT ![r].state = "destroyed", ![r].status = status]
            /\ SessionCreationFailed(r, faConnectOutcome(status))
            /\ UNCHANGED netlog
       ELSE /\ socket' = [socket EXCEPT ![r].state = "open", ![r].status = status]
            /\ StartTls(r)
            /\ UNCHANGED result
    /\ UNCHANGED <<call, fetch, session, sent, stream, responseHeaders, statusCode,
                   chunks, signal, connectOptions>>

\* the error handler of the CONNECT request: a message with "timed out" is
\* passed on as it is, any other is wrapped with the proxy's host and port
faConnectErrorMessage(msg, options) ==
    IF Includes(msg, "timed out") THEN msg
    ELSE "Proxy connection failed: " \o msg \o ". Check proxy settings: "
         \o options.host \o ":" \o ToString(options.port)

\* req.on("error", ...) of the CONNECT request
faConnectError(r, msg) ==
    /\ pc[r] = "connect"
    /\ call[r].impl = "fetchAdapter"
    /\ SessionCreationFailed(r, faConnectErrorMessage(msg, connectOptions[r]))
    /\ socket' = [socket EXCEPT ![r].failedAt = "connect", ![r].reason = msg]
    /\ UNCHANGED <<call, fetch, netlog, session, sent, stream, responseHeaders,
                   statusCode, chunks, signal, connectOptions>>

\* if (proxyConfig?.timeout) req.setTimeout(proxyConfig.timeout, ...): destroys
\* the CONNECT request, whose error event then runs the error handler
faConnectTimeout(r) ==
    /\ pc[r] = "connect"
    /\ call[r].impl = "fetchAdapter"
    /\ call[r].proxy.timeout # 0
    /\ SessionCreationFailed(r, faConnectErrorMessage("Request timed out", connectOptions[r]))
    /\ socket' = [socket EXCEPT ![r].failedAt = "connect timeout", ![r].reason = "Request timed out"]
    /\ UNCHANGED <<call, fetch, netlog, session, sent, stream, responseHeaders,
                   statusCode, chunks, signal, connectOptions>>

\* the callback of tls.connect: a protocol other than h2 is refused
faSecureConnect(r, alpn) ==
    /\ pc[r] = "tls"
    /\ call[r].impl = "fetchAdapter"
    /\ IF alpn # "h2"
       THEN /\ SessionCreationFailed(r, "Server did not negotiate HTTP/2, got: " \o alpn)
            /\ UNCHANGED <<netlog, session, sent, stream, signal>>
       ELSE /\ faSendRequest(r)
            /\ UNCHANGED result
    /\ socket' = [socket EXCEPT ![r].alpnProtocol = alpn]
    /\ UNCHANGED <<call, fetch, responseHeaders, statusCode, chunks, connectOptions>>

-----------------------------------------------------------------------------
(* The body: chunks, codecs and text *)

MaxChunks == 2

\* the chunks a data event can carry: the frame of a codec, the JSON text
\* "1", and a byte that is not valid UTF-8
ChunkValues == {<<31>>, <<120>>, <<27>>, <<49>>, <<255>>}

RECURSIVE concat(_)
\* Buffer.concat(chunks)
concat(cs) == IF cs = <<>> THEN <<>> ELSE Head(cs) \o concat(Tail(cs))

\* A compressed stream is the codec's frame followed by the payload; the
\* frame is the first byte of the codec's header.
FrameByte(encoding) ==
    CASE encoding = "gzip" -> 31
      [] encoding = "deflate" -> 120
      [] encoding = "br" -> 27

\* a decoder that hands back what it cannot decode
DecodeLenient(encoding, buffer) ==
    IF buffer # <<>> /\ buffer[1] = FrameByte(encoding)
    THEN [ok |-> TRUE, value |-> Tail(buffer), message |-> ""]
    ELSE [ok |-> TRUE, value |-> buffer, message |-> ""]

\* gunzipSync / inflateSync / brotliDecompressSync: the payload, or a throw
Decode(encoding, buffer) ==
    IF buffer = <<>>
    THEN [ok |-> FALSE, value |-> <<>>, message |-> "unexpected end of file"]
    ELSE IF buffer[1] = FrameByte(encoding)
         THEN [ok |-> TRUE, value |-> Tail(buffer), message |-> ""]
         ELSE [ok |-> FALSE, value |-> <<>>, message |-> "incorrect header check"]

\* a selection that ignores the case of content-encoding
DecompressAnyCase(encoding, buffer) ==
    IF encoding \in {"gzip", "GZIP", "deflate", "br"}
    THEN Decode(IF encoding = "GZIP" THEN "gzip" ELSE encoding, buffer)
    ELSE [ok |-> TRUE, value |-> buffer, message |-> ""]

\* the try block of the end handler: the codec is chosen by the exact value
\* of content-encoding
Decompress(encoding, buffer) ==
    IF encoding \in {"gzip", "deflate", "br"}
    THEN Decode(encoding, buffer)
    ELSE [ok |-> TRUE, value |-> buffer, message |-> ""]

\* the branches of the try block that call a decoder
DecoderRuns(encoding) == encoding \in {"gzip", "deflate", "br"}

RECURSIVE toStringUtf8(_)
\* buffer.toString("utf8"), as code points: an ASCII byte is its character,
\* EF BF BD is U+FFFD, and any other byte of the bytes used here cannot
\* start or continue a valid sequence and becomes U+FFFD
toStringUtf8(buffer) ==
    IF buffer = <<>> THEN <<>>
    ELSE IF buffer[1] < 128
         THEN <<buffer[1]>> \o toStringUtf8(Tail(buffer))
         ELSE IF Len(buffer) >= 3 /\ SubSeq(buffer, 1, 3) = <<239, 191, 189>>
              THEN <<65533>> \o toStringUtf8(SubSeq(buffer, 4, Len(buffer)))
              ELSE <<65533>> \o toStringUtf8(Tail(buffer))

-----------------------------------------------------------------------------
(* Status *)

NaN == -2

Digits == "0123456789"

RECURSIVE DecimalValue(_)
DecimalValue(s) ==
    IF s = "" THEN 0
    ELSE 10 * DecimalValue(SubSeq(s, 1, Len(s) - 1))
         + (IndexIn(Digits, SubSeq(s, Len(s), Len(s))) - 1)

\* Number(v) of a string: "" is 0, a decimal numeral its value, else NaN
Number(s) ==
    IF \A i \in 1..Len(s) : Includes(Digits, SubSeq(s, i, i))
    THEN DecimalValue(s)
    ELSE NaN

\* a || b
Or(a, b) == IF Truthy(a) THEN a ELSE b

\* HTTP/2 branch: rawStatus, with the property-descriptor fallback
H2RawStatus(hdrs) ==
    LET first == Or(Get(hdrs, ":status"), Get(hdrs, "status"))
    IN  IF first # Undefined THEN first
        ELSE IF Get(hdrs, ":status") # Undefined THEN Get(hdrs, ":status")
             ELSE Get(hdrs, "status")

H2StatusVal(hdrs) ==
    IF H2RawStatus(hdrs) # Undefined THEN Number(H2RawStatus(hdrs)) ELSE UndefinedNum

\* HTTP/1.1 branch: the native statusCode first, then :status
H1StatusVal(code, hdrs) ==
    IF code # UndefinedNum THEN code
    ELSE IF Get(hdrs, ":status") # Undefined THEN Number(Get(hdrs, ":status"))
         ELSE UndefinedNum

-----------------------------------------------------------------------------
(* h2Request: the handlers on the request *)

\* typeof client.request === "function"
isHttp2Session(client) == client.kind = "h2"

\* if (client && isHttp2Session(client)) { client.close(); }
CloseIfHttp2(client) ==
    IF isHttp2Session(client) THEN [client EXCEPT !.closeCalls = @ + 1] ELSE client

\* client?.close() of src/fetchAdapter.ts, whose client is always a session
CloseClient(impl, client) ==
    IF impl = "adapter" THEN CloseIfHttp2(client)
    ELSE [client EXCEPT !.closeCalls = @ + 1]

\* The events the request object can emit.  An Http2Stream emits response,
\* data, end and error.  An http.ClientRequest emits response and error; data
\* and end are events of the IncomingMessage handed to the response
\* listener, never of the request.
Emits(kind, event) ==
    \/ kind = "h2" /\ event \in {"response", "data", "end", "error"}
    \/ kind = "h1" /\ event \in {"response", "error"}

\* header objects a response can carry
ResponseStatuses == {Undefined, "204", "abc"}
ContentEncodings == {Undefined, "gzip", "deflate", "br", "GZIP", "identity"}
HeadersOf(status, encoding) ==
    [n \in (IF status = Undefined THEN {} ELSE {":status"})
           \cup (IF encoding = Undefined THEN {} ELSE {"content-encoding"})
       |-> IF n = ":status" THEN status ELSE encoding]
\* every status with no content-encoding, every content-encoding with 204
H2ResponseHeaders ==
    {HeadersOf(st, Undefined) : st \in ResponseStatuses}
        \cup {HeadersOf("204", enc) : enc \in ContentEncodings}
\* an HTTP/1.1 response has a status line and no pseudo-header
H1StatusCodes == {204}
H1ResponseHeaders == {HeadersOf(Undefined, enc) : enc \in ContentEncodings}

\* a destroyed request that still delivers its response, data and end events
ListeningAfterDestroy(r, kind, event) ==
    /\ pc[r] = "request"
    /\ session[r].kind = kind
    /\ stream[r].state \in {"open", "destroyed"}
    /\ Emits(kind, event)

Listening(r, kind, event) ==
    /\ pc[r] = "request"
    /\ session[r].kind = kind
    /\ stream[r].state = "open"
    /\ Emits(kind, event)

\* HTTP/2: req.on("response", (hdrs) => { responseHeaders = hdrs; })
\* a response handler that keeps the headers in a variable of the module,
\* shared by all the calls
H2OnResponseShared(r, hdrs) ==
    /\ Listening(r, "h2", "response")
    /\ ~stream[r].headersSeen
    /\ responseHeaders' = [q \in DOMAIN responseHeaders |-> hdrs]
    /\ stream' = [stream EXCEPT ![r].headersSeen = TRUE]
    /\ UNCHANGED <<call, fetch, pc, result, netlog, socket, session, sent, statusCode,
                   chunks, signal, connectOptions>>

H2OnResponse(r, hdrs) ==
    /\ Listening(r, "h2", "response")
    /\ ~stream[r].headersSeen
    /\ responseHeaders' = [responseHeaders EXCEPT ![r] = hdrs]
    /\ stream' = [stream EXCEPT ![r].headersSeen = TRUE]
    /\ UNCHANGED <<call, fetch, pc, result, netlog, socket, session, sent, statusCode,
                   chunks, signal, connectOptions>>

\* a data handler that puts the chunk in front: chunks.unshift(chunk)
OnDataUnshift(r, kind, chunk) ==
    /\ Listening(r, kind, "data")
    /\ stream[r].headersSeen
    /\ Len(chunks[r]) < MaxChunks
    /\ chunks' = [chunks EXCEPT ![r] = <<chunk>> \o @]
    /\ stream' = [stream EXCEPT ![r].received = Append(@, chunk)]
    /\ UNCHANGED <<call, fetch, pc, result, netlog, socket, session, sent,
                   responseHeaders, statusCode, signal, connectOptions>>

\* req.on("data", (chunk) => { chunks.push(chunk); })
OnData(r, kind, chunk) ==
    /\ Listening(r, kind, "data")
    /\ stream[r].headersSeen
    /\ Len(chunks[r]) < MaxChunks
    /\ chunks' = [chunks EXCEPT ![r] = Append(@, chunk)]
    /\ stream' = [stream EXCEPT ![r].received = Append(@, chunk)]
    /\ UNCHANGED <<call, fetch, pc, result, netlog, socket, session, sent,
                   responseHeaders, statusCode, signal, connectOptions>>

\* The chunks explored after the headers hdrs: the text, the invalid byte,
\* and one frame, that of the codec hdrs names or else that of gzip.
ChunksFor(hdrs) ==
    LET encoding == Get(hdrs, "content-encoding")
    IN  {c \in ChunkValues :
            \/ c \in {<<49>>, <<255>>}
            \/ c = <<IF encoding \in {"deflate", "br"} THEN FrameByte(encoding) ELSE 31>>}

\* a data handler that decodes what it has and resolves at every chunk
H2OnDataResolves(r, chunk) ==
    /\ chunk \in ChunksFor(responseHeaders[r])
    /\ Listening(r, "h2", "data")
    /\ stream[r].headersSeen
    /\ Len(chunks[r]) < MaxChunks
    /\ chunks' = [chunks EXCEPT ![r] = Append(@, chunk)]
    /\ stream' = [stream EXCEPT
                    ![r].received = Append(@, chunk),
                    ![r].decodes =
                        IF DecoderRuns(Get(responseHeaders[r], "content-encoding"))
                        THEN @ + 1 ELSE @]
    /\ result' =
         [result EXCEPT
            ![r] = Resolved(@, [NoResponse EXCEPT
                                  !.headers = responseHeaders[r],
                                  !.rawBody = concat(chunks'[r])])]
    /\ UNCHANGED <<call, fetch, pc, netlog, socket, session, sent,
                   responseHeaders, statusCode, signal, connectOptions>>

H2OnData(r, chunk) ==
    /\ chunk \in ChunksFor(responseHeaders[r])
    /\ OnData(r, "h2", chunk)

\* tls.connect({socket, ...}) returns a new TLSSocket: the _remoteAddress
\* property getSocket put on the raw socket is not a property of it, and
\* client.socket is that TLSSocket.
ClientSocket(rawSocket) == [rawSocket EXCEPT !.remoteAddress = Undefined]

\* the response object the HTTP/2 end handler resolves with
H2Response(hdrs, rawBody, rawSocket) ==
    [status |-> H2StatusVal(hdrs), headers |-> hdrs, rawBody |-> rawBody,
     bodyText |-> toStringUtf8(rawBody),
     remoteAddress |-> ClientSocket(rawSocket).remoteAddress]

\* the response object the HTTP/1.1 end handler resolves with
H1Response(code, hdrs, rawBody) ==
    [status |-> H1StatusVal(code, hdrs), headers |-> hdrs, rawBody |-> rawBody,
     bodyText |-> toStringUtf8(rawBody), remoteAddress |-> Undefined]

\* src/fetchAdapter.ts: status: Number(responseHeaders[":status"]) || 0
faStatusVal(hdrs) ==
    LET n == IF Get(hdrs, ":status") = Undefined THEN NaN ELSE Number(Get(hdrs, ":status"))
    IN  IF n = NaN \/ n = 0 THEN 0 ELSE n

\* the response object the end handler of src/fetchAdapter.ts resolves with
faResponse(hdrs, body) ==
    [status |-> faStatusVal(hdrs), headers |-> hdrs, rawBody |-> <<>>,
     bodyText |-> toStringUtf8(body), remoteAddress |-> Undefined]

-----------------------------------------------------------------------------
(* The fetch layer: the response object and its methods *)

\* Buffer.from(text) / new TextEncoder().encode(text): U+FFFD is EF BF BD
encodeUtf8(text) ==
    concat([i \in 1..Len(text) |->
              IF text[i] < 128 THEN <<text[i]>> ELSE <<239, 191, 189>>])

RECURSIVE DigitsValue(_)
\* the number a text of decimal digits denotes
DigitsValue(text) ==
    IF text = <<>> THEN 0
    ELSE 10 * DigitsValue(SubSeq(text, 1, Len(text) - 1)) + (text[Len(text)] - 48)

\* JSON.parse(text) of a text that is a number literal, empty, or neither
JSONParse(text) ==
    IF text = <<>>
    THEN [ok |-> FALSE, value |-> 0, message |-> "Unexpected end of JSON input"]
    ELSE IF /\ \A i \in 1..Len(text) : text[i] \in 48..57
            /\ (Len(text) = 1 \/ text[1] # 48)
         THEN [ok |-> TRUE, value |-> DigitsValue(text), message |-> ""]
         ELSE [ok |-> FALSE, value |-> 0, message |-> "Unexpected token in JSON"]

\* json() of the object h2Request resolves with: the syntax error is wrapped
h2resJson(h2res) ==
    LET p == JSONParse(h2res.bodyText)
    IN  IF p.ok THEN p ELSE [p EXCEPT !.message = "JSON parsing failed: " \o @]

\* a filter that lets every header through
ordinaryHeadersAll(headers) == headers

\* Object.entries(h2res.headers).filter(([key]) => !key.startsWith(":")),
\* each entry assigned to response.headers[key]
ordinaryHeaders(headers) ==
    [n \in {k \in DOMAIN headers : ~StartsWith(k, ":")} |-> headers[n]]

\* Object.entries(h2res.headers).filter(([key]) => key.startsWith(":")),
\* each entry assigned to (response as any)[key]
pseudoHeaderProperties(headers) ==
    [n \in {k \in DOMAIN headers : StartsWith(k, ":")} |-> headers[n]]

\* const rawStatus = h2res.headers[":status"] || h2res.status;
\* response.status = rawStatus !== undefined ? Number(rawStatus) : undefined;
assembleInitialResponse(h2res) ==
    LET pseudo == Get(h2res.headers, ":status")
    IN  [NoFetch EXCEPT
           !.h2res = h2res,
           !.status = IF Truthy(pseudo) THEN Number(pseudo) ELSE h2res.status,
           !.headers = ordinaryHeaders(h2res.headers),
           !.props = pseudoHeaderProperties(h2res.headers)]

\* handleRequest, after h2Request has resolved
handleRequest(h2res) == [assembleInitialResponse(h2res) EXCEPT !.state = "ready"]

\* fetchAdapter of src/fetchAdapter.ts, after h2Request has resolved:
\* response.statusCode = h2res.status
faFetchResponse(h2res) ==
    [NoFetch EXCEPT !.state = "ready", !.h2res = h2res, !.statusCode = h2res.status,
                    !.headers = ordinaryHeaders(h2res.headers),
                    !.props = pseudoHeaderProperties(h2res.headers)]

FetchResponse(impl, h2res) ==
    IF impl = "adapter" THEN handleRequest(h2res) ELSE faFetchResponse(h2res)

\* the catch of fetchAdapter's branch without timeout: the error fetchAdapter
\* throws for an error of h2Request
\* a catch that replaces the error of h2Request by its own
fetchAdapterErrorOpaque(msg) == "HTTP/2 request failed"

fetchAdapterError(msg) ==
    IF Includes(msg, "timed out") THEN msg ELSE "HTTP/2 request failed: " \o msg

\* The error fetchAdapter's promise rejects with once h2Request has rejected:
\* the branch with init.timeout has a finally and no catch, the branch
\* without one goes through the catch.
FetchError(r) ==
    IF call[r].timeout # 0
    THEN result[r].error
    ELSE fetchAdapterError(result[r].error)

-----------------------------------------------------------------------------
(* h2Request: the end and error handlers *)

\* req.on("end", ...): concat, decompress, close, resolve
OnEnd(r, kind) ==

    /\ Listening(r, kind, "end")
    /\ stream[r].headersSeen
    /\ LET buffer == concat(chunks[r])
           encoding == Get(responseHeaders[r], "content-encoding")
           d == Decompress(encoding, buffer)
       IN  /\ session' = [session EXCEPT ![r] = CloseClient(call[r].impl, @)]
           /\ result' =
                [result EXCEPT
                   ![r] = IF ~d.ok
                          THEN Rejected(@, "Decompression failed: " \o d.message)
                          ELSE Resolved(@,
                                 IF call[r].impl = "fetchAdapter"
                                 THEN faResponse(responseHeaders[r], d.value)
                                 ELSE IF kind = "h2"
                                 THEN H2Response(responseHeaders[r], d.value, socket[r])
                                 ELSE H1Response(statusCode[r], responseHeaders[r], d.value))]
    /\ fetch' = [fetch EXCEPT
                   ![r] = IF /\ call[r].via = "fetchAdapter"
                             /\ result[r].state = "pending"
                             /\ result'[r].state = "resolved"
                          THEN FetchResponse(call[r].impl, result'[r].response)
                          ELSE @]
    /\ stream' = [stream EXCEPT
                    ![r].state = "closed", ![r].ended = TRUE,
                    ![r].decodes =
                        IF DecoderRuns(Get(responseHeaders[r], "content-encoding"))
                        THEN @ + 1 ELSE @]
    /\ UNCHANGED <<call, pc, netlog, socket, sent, responseHeaders, statusCode,
                   chunks, signal, connectOptions>>

H2OnEnd(r) == OnEnd(r, "h2")

\* HTTP/1.1: req.on("response", (res) => { statusCode = ...; responseHeaders = ...; })
H1OnResponse(r, code, hdrs) ==
    /\ Listening(r, "h1", "response")
    /\ ~stream[r].headersSeen
    /\ statusCode' = [statusCode EXCEPT ![r] = code]
    /\ responseHeaders' = [responseHeaders EXCEPT ![r] = hdrs]
    /\ stream' = [stream EXCEPT ![r].headersSeen = TRUE]
    /\ UNCHANGED <<call, fetch, pc, result, netlog, socket, session, sent, chunks,
                   signal, connectOptions>>

\* The data and end handlers of the HTTP/1.1 branch are registered on the
\* ClientRequest, which emits neither event: they are never run.
H1OnData(r, chunk) == OnData(r, "h1", chunk)
H1OnEnd(r) == OnEnd(r, "h1")

\* The HTTP/1.1 response message is complete.  Its end is an event of the
\* IncomingMessage res, on which the response handler registers nothing, so
\* no code of h2Request runs.
H1ResponseComplete(r) ==
    /\ Listening(r, "h1", "response")
    /\ stream[r].headersSeen
    /\ ~stream[r].ended
    /\ stream' = [stream EXCEPT ![r].ended = TRUE]
    /\ UNCHANGED <<call, fetch, pc, result, netlog, socket, session, sent,
                   responseHeaders, statusCode, chunks, signal, connectOptions>>

\* the body of req.on("error", ...), the same text in both branches
ErrorHandler(r, msg) ==
    /\ session' = [session EXCEPT ![r] = CloseClient(call[r].impl, @)]
    /\ result' = [result EXCEPT ![r] = Rejected(@, "Request failed: " \o msg)]

\* an error handler that sends the request once more before it gives up
OnErrorRetry(r, msg) ==
    /\ pc[r] = "request"
    /\ stream[r].state = "open"
    /\ stream' = [stream EXCEPT ![r].state = "closed"]
    /\ netlog' = [netlog EXCEPT ![r] = Append(@, "session.request")]
    /\ ErrorHandler(r, msg)
    /\ UNCHANGED <<call, fetch, pc, socket, sent, responseHeaders, statusCode,
                   chunks, signal, connectOptions>>

\* a transport-level error on the request
OnError(r, msg) ==
    /\ pc[r] = "request"
    /\ stream[r].state = "open"
    /\ stream' = [stream EXCEPT ![r].state = "closed"]
    /\ ErrorHandler(r, msg)
    /\ UNCHANGED <<call, fetch, pc, netlog, socket, sent, responseHeaders, statusCode,
                   chunks, signal, connectOptions>>

\* src/fetchAdapter.ts, direct connection: http2.connect(targetUrl.origin) resolves the session
\* at once and performs the TLS handshake itself.  When the handshake fails
\* the session is destroyed; session.on("error", reject) acts on a promise
\* that is already resolved, and the request, still pending on the session,
\* is destroyed with Node's cancellation error, which runs its error
\* handler.
faSessionTlsError(r, msg) ==
    /\ pc[r] = "request"
    /\ call[r].impl = "fetchAdapter"
    /\ ~call[r].proxy.present
    /\ stream[r].state = "open"
    /\ ~stream[r].headersSeen
    /\ socket' = [socket EXCEPT ![r].failedAt = "tls", ![r].reason = msg]
    /\ stream' = [stream EXCEPT ![r].state = "closed"]
    /\ ErrorHandler(r, "The pending stream has been canceled (caused by: " \o msg \o ")")
    /\ UNCHANGED <<call, fetch, pc, netlog, sent, responseHeaders, statusCode,
                   chunks, signal, connectOptions>>

\* req.destroy() without an error: the request is torn down and emits no error
DestroyQuietly(req, msg, by) ==
    IF req.state = "open"
    THEN [req EXCEPT !.state = "closed", !.destroyedBy = by]
    ELSE req

\* req.destroy(err): a request that is still open is torn down and will emit
\* error; one already destroyed or closed is left as it is
Destroy(req, msg, by) ==
    IF req.state = "open"
    THEN [req EXCEPT !.state = "destroyed", !.error = msg, !.destroyedBy = by]
    ELSE req

\* the error event that follows req.destroy(err)
OnDestroyError(r) ==
    /\ pc[r] = "request"
    /\ stream[r].state = "destroyed"
    /\ stream' = [stream EXCEPT ![r].state = "closed"]
    /\ ErrorHandler(r, stream[r].error)
    /\ UNCHANGED <<call, fetch, pc, netlog, socket, sent, responseHeaders, statusCode,
                   chunks, signal, connectOptions>>

\* if (proxy?.timeout) req.setTimeout(proxy.timeout, () => req.destroy(...))
OnTimeout(r) ==
    /\ pc[r] = "request"
    /\ call[r].proxy.present /\ call[r].proxy.timeout # 0
    /\ stream[r].state = "open"
    /\ stream' = [stream EXCEPT ![r] = Destroy(@, "Request timed out", "timeout")]
    /\ UNCHANGED <<call, fetch, pc, result, netlog, socket, session, sent,
                   responseHeaders, statusCode, chunks, signal, connectOptions>>

\* a timer that is started with the call and never cleared
TimerLeftRunning(r) == pc[r] # "idle"

\* The timer of fetchAdapter's branch with init.timeout runs from the call
\* until the finally block clears it, which happens in the microtask that
\* follows the settling of h2Request's promise.
TimerArmed(r) == pc[r] # "idle" /\ result[r].state = "pending"

\* The signal aborts: the caller's, or the fetch layer's controller when its
\* timer fires.  The listener exists only once h2Request has registered it,
\* after the session was created; it destroys the request and closes the
\* session.
OnAbort(r) ==
    /\ call[r].signal
    /\ call[r].via = "fetchAdapter" => TimerArmed(r)
    /\ ~signal[r].aborted
    /\ signal' = [signal EXCEPT ![r].aborted = TRUE, ![r].abortedIn = pc[r]]
    /\ IF signal[r].listener
       THEN /\ stream' = [stream EXCEPT ![r] = Destroy(@, "Request timed out", "abort")]
            /\ session' = [session EXCEPT ![r] = CloseClient(call[r].impl, @)]
       ELSE UNCHANGED <<stream, session>>
    /\ UNCHANGED <<call, fetch, pc, result, netlog, socket, sent, responseHeaders,
                   statusCode, chunks, connectOptions>>

-----------------------------------------------------------------------------
\* The AbortSignal the caller put in init.signal aborts while the request is
\* in flight.  fetchAdapter hands
\* h2Request the signal of its own controller (with init.timeout) or none
\* (without), and never reads init.signal: no listener is on it, in either
\* revision.
InitSignalAbort(r) ==
    /\ call[r].initSignal
    /\ signal[r].initAbortedIn = ""
    /\ pc[r] = "request" /\ stream[r].state = "open" /\ result[r].state = "pending"
    /\ signal' = [signal EXCEPT ![r].initAbortedIn = "in flight"]
    /\ UNCHANGED <<call, fetch, pc, result, netlog, socket, session, sent, stream,
                   responseHeaders, statusCode, chunks, connectOptions>>

-----------------------------------------------------------------------------
(* The fetch layer: calls of the response's methods *)

MaxCalls == 3

\* response.text of handleRequest, up to its return: the first call takes
\* h2res.rawBody (or, without one, the bytes of h2res.text()) and pushes it
hrText(f) ==
    IF f.rawBuffer = Null
    THEN [f EXCEPT !.rawBuffer = IF f.h2res.rawBody # Null
                                 THEN f.h2res.rawBody
                                 ELSE encodeUtf8(f.h2res.bodyText),
                   !.reads = @ + 1, !.pushes = @ + 1]
    ELSE f

\* response.text of src/fetchAdapter.ts: if (!bodyText) { ... }
faText(f) ==
    IF f.bodyText = <<>>
    THEN [f EXCEPT !.bodyText = f.h2res.bodyText, !.reads = @ + 1, !.pushes = @ + 1]
    ELSE f

\* the response after a call of text(), and the string the call returns
AfterText(impl, f) == IF impl = "adapter" THEN hrText(f) ELSE faText(f)
\* a text() that reads the response stream, drained by an earlier call
TextValueDrained(impl, f) ==
    IF f.history # <<>> THEN <<>>
    ELSE IF impl = "adapter" THEN toStringUtf8(f.rawBuffer) ELSE f.bodyText

TextValue(impl, f) == IF impl = "adapter" THEN toStringUtf8(f.rawBuffer) ELSE f.bodyText

Callable(r) ==
    /\ fetch[r].state = "ready"
    /\ Len(fetch[r].history) < MaxCalls

\* the caller awaits response.text()
Text(r) ==
    /\ Callable(r)
    /\ LET f == AfterText(call[r].impl, fetch[r])
           v == TextValue(call[r].impl, f)
       IN  fetch' = [fetch EXCEPT
                       ![r] = [f EXCEPT !.text = v,
                                        !.textStable = @ /\ f.text \in {Null, v},
                                        !.history = Append(@, "text")]]
    /\ UNCHANGED <<call, pc, result, netlog, socket, session, sent, stream,
                   responseHeaders, statusCode, chunks, signal, connectOptions>>

\* the caller awaits response.json(): text(), then JSON.parse(text)
Json(r) ==
    /\ Callable(r)
    /\ LET f == AfterText(call[r].impl, fetch[r])
           p == JSONParse(TextValue(call[r].impl, f))
       IN  fetch' = [fetch EXCEPT
                       ![r] = [f EXCEPT !.json = [state |-> IF p.ok THEN "ok" ELSE "error",
                                                  value |-> p.value,
                                                  message |-> p.message],
                                        !.history = Append(@, "json")]]
    /\ UNCHANGED <<call, pc, result, netlog, socket, session, sent, stream,
                   responseHeaders, statusCode, chunks, signal, connectOptions>>

\* response.arrayBuffer of handleRequest: the bytes of rawBuffer, filled by
\* text() when it is still null
hrArrayBuffer(f) ==
    LET g == IF f.rawBuffer = Null THEN hrText(f) ELSE f
    IN  [g EXCEPT !.buffer = g.rawBuffer]

\* response.arrayBuffer of src/fetchAdapter.ts: the text, encoded again
faArrayBuffer(f) ==
    LET g == faText(f)
    IN  [g EXCEPT !.buffer = encodeUtf8(g.bodyText)]

\* the caller awaits response.arrayBuffer()
ArrayBuffer(r) ==
    /\ Callable(r)
    /\ LET f == IF call[r].impl = "adapter" THEN hrArrayBuffer(fetch[r])
                ELSE faArrayBuffer(fetch[r])
       IN  fetch' = [fetch EXCEPT ![r] = [f EXCEPT !.history = Append(@, "arrayBuffer")]]
    /\ UNCHANGED <<call, pc, result, netlog, socket, session, sent, stream,
                   responseHeaders, statusCode, chunks, signal, connectOptions>>

-----------------------------------------------------------------------------
(* The specification *)

Next ==
    \E r \in Requests :
        \/ h2Request(r)
        \/ faH2Request(r)
        \/ \E status \in ConnectStatuses : faConnectResponse(r, status)
        \/ \E msg \in TransportErrors : faConnectError(r, msg)
        \/ faConnectTimeout(r)
        \/ \E alpn \in AlpnResults : faSecureConnect(r, alpn)
        \/ \E msg \in TransportErrors : faSessionTlsError(r, msg)
        \/ \E status \in ConnectStatuses : ConnectResponse(r, status)
        \/ \E msg \in TransportErrors : ConnectError(r, msg)
        \/ ConnectTimeout(r)
        \/ TcpConnect(r)
        \/ \E msg \in TransportErrors : TcpError(r, msg)
        \/ \E msg \in TransportErrors : TlsError(r, msg)
        \/ \E alpn \in AlpnResults : SecureConnect(r, alpn)
        \/ \E hdrs \in H2ResponseHeaders : H2OnResponse(r, hdrs)
        \/ \E chunk \in ChunkValues : H2OnData(r, chunk)
        \/ H2OnEnd(r)
        \/ \E code \in H1StatusCodes, hdrs \in H1ResponseHeaders :
              H1OnResponse(r, code, hdrs)
        \/ H1ResponseComplete(r)
        \/ \E msg \in TransportErrors : OnError(r, msg)
        \/ OnDestroyError(r)
        \/ OnTimeout(r)
        \/ OnAbort(r)
        \/ InitSignalAbort(r)
        \/ Text(r)
        \/ Json(r)
        \/ ArrayBuffer(r)

Spec == Init /\ [][Next]_vars

\* Two calls of h2Request in flight at once.  Each call has its own client,
\* responseHeaders, chunks and promise (locals and closures of h2Request);
\* the events of the two calls interleave freely.  The calls are direct
\* HTTP/2 requests with or without an AbortSignal.
Pair == {"r1", "r2"}
PairCalls ==
    {c \in CallInputs :
        /\ c.impl = "adapter" /\ c.via = "h2Request" /\ c.proxy = NoProxy
        /\ c.url = BaseURL /\ c.method = "GET" /\ c.headers = NoHeaders
        /\ c.body = Undefined}
PairHeaders == {HeadersOf("204", Undefined), HeadersOf("204", "gzip")}
PairChunks == {<<31>>, <<49>>}

InitPair ==
    /\ call \in [Pair -> PairCalls]
    /\ pc = [r \in Pair |-> "idle"]
    /\ result = [r \in Pair |-> NotCalled]
    /\ netlog = [r \in Pair |-> <<>>]
    /\ socket = [r \in Pair |-> NoSocket]
    /\ session = [r \in Pair |-> NoSession]
    /\ sent = [r \in Pair |-> NothingSent]
    /\ connectOptions = [r \in Pair |-> NoConnectOptions]
    /\ stream = [r \in Pair |-> NoStream]
    /\ responseHeaders = [r \in Pair |-> NoHeaders]
    /\ statusCode = [r \in Pair |-> UndefinedNum]
    /\ chunks = [r \in Pair |-> <<>>]
    /\ signal = [r \in Pair |-> NoSignal]
    /\ fetch = [r \in Pair |-> NoFetch]

NextPair ==
    \E r \in Pair :
        \/ h2Request(r)
        \/ TcpConnect(r)
        \/ TcpError(r, "connect ECONNREFUSED")
        \/ TlsError(r, "socket hang up")
        \/ SecureConnect(r, "h2")
        \/ \E hdrs \in PairHeaders : H2OnResponse(r, hdrs)
        \/ \E chunk \in PairChunks : H2OnData(r, chunk)
        \/ H2OnEnd(r)
        \/ OnError(r, "socket hang up")
        \/ OnDestroyError(r)
        \/ OnAbort(r)

PairSpec == InitPair /\ [][NextPair]_vars

\* assembleInitialResponse and the methods of the response it starts, over
\* H2Response objects of every shape the type admits
H2ResponseInputs ==
    {[status |-> st, headers |-> HeadersOf(ps, Undefined), rawBody |-> b,
      bodyText |-> toStringUtf8(b), remoteAddress |-> Undefined] :
        st \in {UndefinedNum, 204}, ps \in {Undefined, "204", "404"},
        b \in {<<>>, <<49>>, <<255>>}}
    \cup
    {[status |-> 204, headers |-> NoHeaders, rawBody |-> Null,
      bodyText |-> t, remoteAddress |-> Undefined] : t \in {<<49>>, <<65533>>}}

InitAssemble ==
    /\ call \in [Requests -> {c \in CallInputs : c.via = "fetchAdapter" /\ c.impl = "adapter"}]
    /\ pc = [r \in Requests |-> "idle"]
    /\ result = [r \in Requests |-> NotCalled]
    /\ netlog = [r \in Requests |-> <<>>]
    /\ socket = [r \in Requests |-> NoSocket]
    /\ session = [r \in Requests |-> NoSession]
    /\ sent = [r \in Requests |-> NothingSent]
    /\ connectOptions = [r \in Requests |-> NoConnectOptions]
    /\ stream = [r \in Requests |-> NoStream]
    /\ responseHeaders = [r \in Requests |-> NoHeaders]
    /\ statusCode = [r \in Requests |-> UndefinedNum]
    /\ chunks = [r \in Requests |-> <<>>]
    /\ signal = [r \in Requests |-> NoSignal]
    /\ fetch \in [Requests -> {[NoFetch EXCEPT !.state = "input", !.h2res = h] :
                                   h \in H2ResponseInputs}]

\* const response = assembleInitialResponse(h2res); ...; return response
Assemble(r) ==
    /\ fetch[r].state = "input"
    /\ fetch' = [fetch EXCEPT ![r] = handleRequest(fetch[r].h2res)]
    /\ UNCHANGED <<call, pc, result, netlog, socket, session, sent, stream,
                   responseHeaders, statusCode, chunks, signal, connectOptions>>

NextAssemble ==
    \E r \in Requests :
        \/ Assemble(r)
        \/ Text(r)
        \/ Json(r)
        \/ ArrayBuffer(r)

AssembleSpec == InitAssemble /\ [][NextAssemble]_vars

\* The error event that follows req.destroy(err) is emitted on the next tick
\* of the event loop, whatever else is pending.
LiveSpec == Spec /\ \A r \in Requests : WF_vars(OnDestroyError(r))

-----------------------------------------------------------------------------
(* Claims *)

Settled(r) == result[r].state \in {"resolved", "rejected"}
RejectedWith(r, text) == result[r].state = "rejected" /\ Includes(result[r].error, text)

\* C1: whenever an h2Request call that obtained a session (an HTTP/2 session
\* or an HTTP/1.1 request) has settled its promise, close() has been invoked
\* on that session.
C1_ClosedWhenSettled ==
    \A r \in Requests :
        session[r].kind # "none" /\ Settled(r) => session[r].closeCalls >= 1

\* C2: close() is invoked at most once on the session of a request.
C2_ClosedAtMostOnce ==
    \A r \in Requests : session[r].closeCalls <= 1

\* the session is closed: close() was invoked on it, or, for the HTTP/1.1
\* request, whose close() aborts the request, the request was torn down
SessionClosed(r) ==
    \/ session[r].closeCalls >= 1
    \/ session[r].kind = "h1" /\ stream[r].state \in {"destroyed", "closed"}

\* C3: once the abort signal has fired on a request that was awaiting or
\* collecting its response, the request is destroyed, the promise is rejected
\* with a message containing "timed out", and the session is closed.
C3_AbortRejectsTimedOut ==
    \A r \in Requests :
        (stream[r].destroyedBy = "abort")
            ~> (/\ stream[r].state = "closed"
                /\ RejectedWith(r, "timed out")
                /\ SessionClosed(r))

C3_Witness ==
    \E r \in Requests :
        /\ stream[r].destroyedBy = "abort"
        /\ Len(chunks[r]) >= 1
        /\ RejectedWith(r, "timed out")
        /\ session[r].kind = "h2" /\ session[r].closeCalls >= 1

\* C4: a request whose abort signal fired during session establishment (the
\* CONNECT round trip, the TCP connect or the TLS handshake) never sends its
\* request.
C4_AbortWhileEstablishingStops ==
    \A r \in Requests :
        signal[r].abortedIn \in {"connect", "tcp", "tls"} => sent[r].kind = "none"

InLog(r, op) == \E i \in 1..Len(netlog[r]) : netlog[r][i] = op

IncompleteProxy(r) ==
    call[r].proxy.present /\ (call[r].proxy.host = "" \/ call[r].proxy.port = 0)

\* C5: a call with a proxy configuration whose host is empty or whose port
\* is 0 never starts a network operation, and once made (with a URL that
\* parses) it is rejected with "Proxy configuration is incomplete".
C5_IncompleteProxyRejected ==
    \A r \in Requests :
        IncompleteProxy(r) =>
            /\ netlog[r] = <<>>
            /\ socket[r] = NoSocket
            /\ connectOptions[r] = NoConnectOptions
            /\ pc[r] # "idle" /\ ParseURL(call[r].url).valid =>
                   RejectedWith(r, "Proxy configuration is incomplete")

C5_Witness ==
    \E r \in Requests :
        /\ call[r].proxy.present
        /\ call[r].proxy.host # "" /\ call[r].proxy.port = 0
        /\ RejectedWith(r, "Proxy configuration is incomplete")

\* C6: the status of the CONNECT response alone decides: 407 rejects with
\* "Proxy authentication failed", any other status but 200 rejects with a
\* tunnel error naming the status, and the TLS handshake over a tunnel is
\* started for status 200 and for no other.
C6_ConnectStatusDecides ==
    \A r \in Requests :
        /\ socket[r].status = 407 =>
              /\ RejectedWith(r, "Proxy authentication failed")
              /\ ~Includes(result[r].error, "Tunnel establishment failed")
        /\ socket[r].status \notin {0, 200, 407} =>
              /\ RejectedWith(r, "Tunnel establishment failed")
              /\ Includes(result[r].error, ToString(socket[r].status))
        /\ socket[r].status \notin {0, 200} =>
              socket[r].state = "destroyed" /\ ~InLog(r, "tls.connect")
        /\ socket[r].status = 200 => InLog(r, "tls.connect")
        /\ call[r].proxy.present /\ InLog(r, "tls.connect") => socket[r].status = 200

C6_Witness ==
    \E r \in Requests : socket[r].status = 403 /\ RejectedWith(r, "403")

\* C7: once the TLS handshake has succeeded, session creation has produced a
\* session: an HTTP/2 session for ALPN "h2", an HTTP/1.1 request for any
\* other result.
C7_NoRejectionOnProtocol ==
    \A r \in Requests :
        socket[r].alpnProtocol # Undefined =>
            session[r].kind = IF socket[r].alpnProtocol = "h2" THEN "h2" ELSE "h1"

C9_PseudoHeadersKept ==
    \A r \in Requests :
        sent[r].kind = "h2" =>
            LET targetUrl == ParseURL(call[r].url)
            IN  /\ sent[r].headers[":method"] = call[r].method
                /\ sent[r].headers[":path"] = targetUrl.pathname \o targetUrl.search
                /\ sent[r].headers[":scheme"] = "https"
                /\ sent[r].headers[":authority"] = targetUrl.host

\* C10: the request sent on the HTTP/1.1 path has the caller's method, path
\* and header map, carries the caller's body when there is one, and is ended.
C10_Http1RequestAsCalled ==
    \A r \in Requests :
        sent[r].kind = "h1" =>
            LET targetUrl == ParseURL(call[r].url)
            IN  /\ sent[r].method = call[r].method
                /\ sent[r].path = targetUrl.pathname \o targetUrl.search
                /\ sent[r].headers = call[r].headers
                /\ Truthy(call[r].body) => sent[r].body = call[r].body
                /\ sent[r].ended

\* C11: a request whose response headers and then the end of the response
\* have arrived, and which is never failed nor cancelled, is eventually
\* resolved.
C11_EndedResolves ==
    \A r \in Requests :
        <>[](/\ stream[r].headersSeen
             /\ stream[r].ended
             /\ stream[r].destroyedBy = ""
             /\ result[r].state # "rejected")
            => <>(result[r].state = "resolved")

\* the bytes on the wire, one per received chunk, in arrival order
Wire(r) == [i \in 1..Len(stream[r].received) |-> stream[r].received[i][1]]

Codecs == {"gzip", "deflate", "br"}

\* what the body of a resolved response has to be: the wire bytes, less the
\* codec's frame when the content-encoding names a codec
ExpectedBody(r) ==
    IF Get(responseHeaders[r], "content-encoding") \in Codecs
    THEN Tail(Wire(r))
    ELSE Wire(r)

\* C12: the body of a resolved response is made of all the received chunks,
\* each once, in their arrival order.
C12_BodyInArrivalOrder ==
    \A r \in Requests :
        result[r].state = "resolved" =>
            /\ result[r].response.bodyText = toStringUtf8(ExpectedBody(r))
            /\ call[r].impl = "adapter" => result[r].response.rawBody = ExpectedBody(r)

C12_Witness ==
    \E r \in Requests :
        /\ result[r].state = "resolved"
        /\ call[r].impl = "adapter"
        /\ stream[r].received = << <<49>>, <<255>> >>
        /\ result[r].response.rawBody = <<49, 255>>

\* C13: a resolved response of a request with no native status, whose
\* :status header is missing or is no integer, has the status undefined.
C13_UnknownStatusUndefined ==
    \A r \in Requests :
        /\ result[r].state = "resolved"
        /\ statusCode[r] = UndefinedNum
        /\ \/ Get(responseHeaders[r], ":status") = Undefined
           \/ Number(Get(responseHeaders[r], ":status")) = NaN
        => result[r].response.status = UndefinedNum

Encoding(r) == Get(responseHeaders[r], "content-encoding")

\* the end handler of the HTTP/2 request has run
H2Ended(r) == session[r].kind = "h2" /\ stream[r].ended

\* C15: after the end of an HTTP/2 response, a content-encoding other than
\* exactly "gzip", "deflate" or "br" resolves with the wire bytes unchanged;
\* one of the three resolves only with the codec's own frame taken off; and
\* json() of a gzip-encoded "1" is 1.
C15_ExactEncodingSelects ==
    \A r \in Requests :
        H2Ended(r) =>
            /\ Encoding(r) \notin Codecs =>
                  /\ result[r].state = "resolved"
                  /\ result[r].response.bodyText = toStringUtf8(Wire(r))
                  /\ call[r].impl = "adapter" => result[r].response.rawBody = Wire(r)
            /\ Encoding(r) \in Codecs /\ result[r].state = "resolved" =>
                  /\ Wire(r) # <<>>
                  /\ Wire(r)[1] = (CASE Encoding(r) = "gzip" -> 31
                                     [] Encoding(r) = "deflate" -> 120
                                     [] Encoding(r) = "br" -> 27)
                  /\ result[r].response.bodyText = toStringUtf8(Tail(Wire(r)))
            /\ Encoding(r) = "gzip" /\ Wire(r) = <<31, 49>> /\ fetch[r].json.state # "none" =>
                  fetch[r].json = [state |-> "ok", value |-> 1, message |-> ""]

C15_Witness ==
    \E r \in Requests :
        /\ H2Ended(r)
        /\ Encoding(r) = "gzip" /\ Wire(r) = <<31, 49>>
        /\ fetch[r].json.state = "ok" /\ fetch[r].json.value = 1

\* the body cannot be decoded by the codec the content-encoding names
Undecodable(r) ==
    /\ Encoding(r) \in Codecs
    /\ Wire(r) = <<>> \/ Wire(r)[1] # FrameByte(Encoding(r))

CodecMessages == {"incorrect header check", "unexpected end of file"}

\* C16: after the end of an HTTP/2 response whose body cannot be decoded,
\* the promise is rejected with "Decompression failed: " followed by the
\* codec's message, the fetch layer's error carries the same text, and no
\* response object exists on either layer.
C16_DecompressionFailureRejects ==
    \A r \in Requests :
        /\ H2Ended(r) /\ Undecodable(r) =>
              /\ result[r].state = "rejected"
              /\ \E m \in CodecMessages : result[r].error = "Decompression failed: " \o m
              /\ Includes(fetchAdapterError(result[r].error), result[r].error)
        /\ RejectedWith(r, "Decompression failed") =>
              /\ result[r].response = NoResponse
              /\ fetch[r] = NoFetch

C16_Witness ==
    \E r \in Requests :
        /\ H2Ended(r)
        /\ call[r].via = "fetchAdapter"
        /\ Encoding(r) = "gzip" /\ Wire(r) = <<49, 255>>
        /\ result[r].error = "Decompression failed: incorrect header check"

\* C17: all text() calls on a response return the same string, and the body
\* is fetched and pushed into the response stream at most once.
C17_TextWorkOnce ==
    \A r \in Requests :
        fetch[r].state = "ready" =>
            /\ fetch[r].textStable
            /\ fetch[r].reads <= 1
            /\ fetch[r].pushes <= 1

\* C18: json() of a response whose body is not JSON fails with a message
\* containing "JSON parsing failed", on the response h2Request resolves with
\* and on the response of the fetch layer.
C18_JsonFailureNamed ==
    \A r \in Requests :
        /\ result[r].state = "resolved" /\ ~h2resJson(result[r].response).ok =>
               Includes(h2resJson(result[r].response).message, "JSON parsing failed")
        /\ fetch[r].json.state = "error" =>
               Includes(fetch[r].json.message, "JSON parsing failed")

\* C19: whatever calls were made before, text() returns the text of the
\* body, and json() on a body that is not JSON has failed.
C19_ReadableAfterJsonFailure ==
    \A r \in Requests :
        fetch[r].state = "ready" =>
            /\ fetch[r].text # Null => fetch[r].text = fetch[r].h2res.bodyText
            /\ fetch[r].textStable
            /\ ~JSONParse(fetch[r].h2res.bodyText).ok /\ fetch[r].json.state # "none" =>
                   fetch[r].json.state = "error"

C19_Witness ==
    \E r \in Requests :
        /\ fetch[r].history = <<"json", "text", "json">>
        /\ fetch[r].json.state = "error"
        /\ fetch[r].text = <<49, 65533>>

\* C20: what arrayBuffer() returned is the decompressed body, byte for byte.
C20_ArrayBufferIsBody ==
    \A r \in Requests :
        fetch[r].buffer # Null => fetch[r].buffer = ExpectedBody(r)

\* a timeout or a cancellation has fired for the call: the request was
\* destroyed by its timeout or by the abort listener, or the CONNECT
\* request by its timeout
TimedOut(r) ==
    \/ stream[r].destroyedBy \in {"timeout", "abort"}
    \/ socket[r].failedAt = "connect timeout"

\* C21: when a timeout or a cancellation has fired and the call is rejected,
\* the error of h2Request contains "timed out" under all the prefixes it was
\* wrapped in, and so does the error of the fetch layer, in the branch with
\* init.timeout and in the branch without.
C21_TimedOutSurvivesWrapping ==
    \A r \in Requests :
        TimedOut(r) /\ result[r].state = "rejected" =>
            /\ Includes(result[r].error, "timed out")
            /\ call[r].via = "fetchAdapter" => Includes(FetchError(r), "timed out")

C21_Witness ==
    \E r \in Requests :
        /\ call[r].via = "fetchAdapter" /\ call[r].timeout = 0
        /\ socket[r].failedAt = "connect timeout"
        /\ FetchError(r) = "HTTP/2 session creation failed: Proxy connection failed: CONNECT request timed out"

\* C22: when the proxy configuration sets a timeout, the timer armed on the
\* CONNECT request runs for that timeout, so that a proxy that never answers
\* fails the call once the configured time has passed.
C22_ProxyTimeoutArmsConnect ==
    \A r \in Requests :
        connectOptions[r] # NoConnectOptions /\ call[r].proxy.timeout # 0 =>
            connectOptions[r].timeout = call[r].proxy.timeout

\* C23: the CONNECT request of a call with proxy credentials carries, as
\* Proxy-Authorization, "Basic " followed by the base64 encoding of the
\* whole auth string, colons of the password included.
C23_WholeAuthEncoded ==
    \A r \in Requests :
        connectOptions[r] # NoConnectOptions /\ call[r].proxy.auth # "" =>
            Get(connectOptions[r].headers, "Proxy-Authorization")
                = "Basic " \o Base64(call[r].proxy.auth)

\* auth has no colon, or nothing before its first colon, or nothing after it
NoUserOrPassword(auth) ==
    \/ ~Includes(auth, ":")
    \/ LET first == CHOOSE i \in 1..Len(auth) :
                        /\ SubSeq(auth, i, i) = ":"
                        /\ \A j \in 1..(i - 1) : SubSeq(auth, j, j) # ":"
       IN  first = 1 \/ first = Len(auth)

\* C24: a call whose proxy configuration is complete and whose auth does not
\* give a user and a password never builds a CONNECT request nor starts a
\* network operation, and once made it is rejected with "Invalid proxy
\* authentication format".
C24_MalformedAuthRejected ==
    \A r \in Requests :
        /\ call[r].proxy.present /\ ~IncompleteProxy(r)
        /\ call[r].proxy.auth # "" /\ NoUserOrPassword(call[r].proxy.auth)
        => /\ netlog[r] = <<>>
           /\ connectOptions[r] = NoConnectOptions
           /\ pc[r] # "idle" /\ ParseURL(call[r].url).valid =>
                  RejectedWith(r, "Invalid proxy authentication format")

C24_Witness ==
    \E r \in Requests :
        /\ call[r].proxy.auth = "user:"
        /\ call[r].proxy.host = "proxy.local" /\ call[r].proxy.port = 8080
        /\ RejectedWith(r, "Invalid proxy authentication format")
        /\ netlog[r] = <<>>

\* C25: when the CONNECT request fails with a transport error or by its
\* timeout, the call is rejected with a message that contains "Proxy
\* connection failed" and names the proxy's host and port.
C25_ProxyFailureNamesProxy ==
    \A r \in Requests :
        socket[r].failedAt \in {"connect", "connect timeout"} =>
            /\ RejectedWith(r, "Proxy connection failed")
            /\ Includes(result[r].error, call[r].proxy.host)
            /\ Includes(result[r].error, ToString(call[r].proxy.port))

\* everything the model keeps for one call
StateOf(r) ==
    <<call[r], pc[r], result[r], netlog[r], socket[r], session[r], sent[r],
      stream[r], responseHeaders[r], statusCode[r], chunks[r], signal[r],
      connectOptions[r], fetch[r]>>

\* C26: with two calls in flight, a step that changes anything of one call
\* leaves everything of the other call as it was, and the body a call
\* resolves with is made of the bytes that call received and of nothing else.
C26_CallsIsolated ==
    /\ [][\A r \in Pair : \A q \in Pair \ {r} :
              StateOf(r)' # StateOf(r) => StateOf(q)' = StateOf(q)]_vars
    /\ [](\A r \in Pair :
              result[r].state = "resolved" =>
                  /\ result[r].response.rawBody = ExpectedBody(r)
                  /\ result[r].response.headers = responseHeaders[r])

\* one call has resolved with its own two bytes while the other, whose
\* response was gzip-encoded, has resolved with an empty body
C26_Witness ==
    /\ result["r1"].state = "resolved"
    /\ result["r1"].response.rawBody = <<49, 49>>
    /\ result["r2"].state = "resolved"
    /\ stream["r2"].received = <<(<<31>>)>>
    /\ result["r2"].response.rawBody = <<>>

\* how many times a call has started the operation op
Started(r, op) == Cardinality({i \in 1..Len(netlog[r]) : netlog[r][i] = op})

\* C27: a call acquires at most one socket (a direct connection or a CONNECT
\* request), starts at most one TLS handshake, opens at most one session and
\* sends at most one HTTP request, and once its promise is rejected it
\* starts no network operation.
C27_NeverRetried ==
    /\ [](\A r \in Requests :
              /\ Started(r, "net.connect") + Started(r, "http.request CONNECT") <= 1
              /\ Started(r, "tls.connect") <= 1
              /\ Started(r, "http2.connect") <= 1
              /\ Started(r, "session.request") + Started(r, "https.request") <= 1)
    /\ [][\A r \in Requests :
              result[r].state = "rejected" => netlog'[r] = netlog[r]]_vars

\* the request was sent once and has failed
C27_Witness ==
    \E r \in Requests :
        /\ netlog[r] = <<"net.connect", "tls.connect", "http2.connect", "session.request">>
        /\ RejectedWith(r, "Request failed: socket hang up")

\* C28: a promise that has settled keeps its outcome whatever happens next,
\* and a request the abort listener has destroyed never resolves: its
\* promise is pending or rejected with a message containing "timed out".
C28_FirstOutcomeStands ==
    /\ [][\A r \in Requests : Settled(r) => result'[r] = result[r]]_vars
    /\ [](\A r \in Requests :
              stream[r].destroyedBy = "abort" =>
                  \/ result[r].state = "pending"
                  \/ RejectedWith(r, "timed out"))

\* the response ended first and the signal aborted afterwards
C28_Witness ==
    \E r \in Requests :
        /\ result[r].state = "resolved"
        /\ stream[r].ended /\ stream[r].destroyedBy = ""
        /\ signal[r].aborted /\ signal[r].abortedIn = "request"

\* C29: when the TLS handshake of a call fails, the call is rejected with a
\* message that contains "TLS handshake failed" and the reason the TLS layer
\* gave.
C29_TlsFailureNamed ==
    \A r \in Requests :
        socket[r].failedAt = "tls" =>
            /\ RejectedWith(r, "TLS handshake failed")
            /\ Includes(result[r].error, socket[r].reason)

IsPseudo(name) == Len(name) >= 1 /\ SubSeq(name, 1, 1) = ":"

\* C30: on the response the fetch layer assembles, the header map holds the
\* headers of the HTTP/2 response whose name does not begin with ":", with
\* their values, and nothing else; every header whose name begins with ":"
\* is a property of the response under that name, with its value.
C30_PseudoHeadersApart ==
    \A r \in Requests :
        fetch[r].state = "ready" =>
            LET h == fetch[r].h2res.headers
            IN  /\ DOMAIN fetch[r].headers = {k \in DOMAIN h : ~IsPseudo(k)}
                /\ \A k \in DOMAIN fetch[r].headers : fetch[r].headers[k] = h[k]
                /\ \A k \in DOMAIN h :
                       IsPseudo(k) => /\ k \in DOMAIN fetch[r].props
                                      /\ fetch[r].props[k] = h[k]

\* a response with a pseudo-header and an ordinary header
C30_Witness ==
    \E r \in Requests :
        /\ fetch[r].state = "ready"
        /\ DOMAIN fetch[r].h2res.headers = {":status", "content-encoding"}
        /\ fetch[r].headers = ("content-encoding" :> "gzip")
        /\ fetch[r].props = (":status" :> "204")

\* C31: the response of a call that went through a proxy tunnel reports, as
\* remoteAddress, the address of the proxy that was recorded on the socket
\* when the CONNECT request was answered with 200.
C31_RemoteAddressIsProxy ==
    \A r \in Requests :
        /\ result[r].state = "resolved"
        /\ call[r].proxy.present /\ socket[r].status = 200
        => /\ socket[r].remoteAddress = ProxyAddress
           /\ result[r].response.remoteAddress = socket[r].remoteAddress

\* a string with no scheme is not an absolute URL
NotAbsolute(url) == ~Includes(url, "://")

\* C32: a call whose URL is not an absolute URL never starts a socket, a
\* CONNECT request or a TLS handshake, and once made it is rejected with a
\* message that contains "Invalid URL", at h2Request and at the fetch layer.
C32_InvalidUrlRejected ==
    \A r \in Requests :
        NotAbsolute(call[r].url) =>
            /\ netlog[r] = <<>>
            /\ socket[r] = NoSocket
            /\ connectOptions[r] = NoConnectOptions
            /\ pc[r] # "idle" =>
                   /\ RejectedWith(r, "Invalid URL")
                   /\ call[r].via = "fetchAdapter" =>
                          Includes(FetchError(r), "Invalid URL")

C32_Witness ==
    \E r \in Requests :
        /\ call[r].url = "invalid-url"
        /\ call[r].via = "fetchAdapter" /\ call[r].timeout = 0
        /\ pc[r] = "failed"
        /\ FetchError(r) = "HTTP/2 request failed: Invalid URL"
        /\ netlog[r] = <<>>

\* the place of the first op in the log of network operations, 0 when absent
Position(r, op) ==
    IF InLog(r, op)
    THEN CHOOSE i \in 1..Len(netlog[r]) :
            netlog[r][i] = op /\ \A j \in 1..(i - 1) : netlog[r][j] # op
    ELSE 0

\* C33: the TLS handshake is started only after the socket was acquired, on
\* the proxy path only after CONNECT was answered with 200, and the HTTP/2
\* session or the HTTP/1.1 request is created only after a TLS handshake
\* that succeeded.
C33_EstablishmentOrdered ==
    \A r \in Requests :
        /\ InLog(r, "tls.connect") =>
               /\ socket[r].state = "open"
               /\ Position(r, "tls.connect") = 2
               /\ netlog[r][1] \in {"net.connect", "http.request CONNECT"}
               /\ call[r].proxy.present => socket[r].status = 200
        /\ InLog(r, "http2.connect") \/ InLog(r, "https.request") =>
               /\ InLog(r, "tls.connect")
               /\ Position(r, "tls.connect") < Position(r, "http2.connect")
                      \/ Position(r, "tls.connect") < Position(r, "https.request")
               /\ socket[r].alpnProtocol # Undefined

\* C34: as long as the end of the response has not occurred, the promise is
\* not resolved and no decoder has run on the body received so far.
C34_NothingBeforeEnd ==
    \A r \in Requests :
        ~stream[r].ended =>
            /\ result[r].state # "resolved"
            /\ stream[r].decodes = 0

\* two chunks of a gzip response have arrived and the end has not
C34_Witness ==
    \E r \in Requests :
        /\ Get(responseHeaders[r], "content-encoding") = "gzip"
        /\ Len(stream[r].received) = 2
        /\ ~stream[r].ended
        /\ result[r].state = "pending"

\* C35: for a call through the fetch layer, a decoder has run on the body
\* only if text(), json() or arrayBuffer() was called on the response, and
\* it has run at most once.
C35_DecompressionLazy ==
    \A r \in Requests :
        call[r].via = "fetchAdapter" =>
            /\ stream[r].decodes >= 1 => fetch[r].history # <<>>
            /\ stream[r].decodes <= 1

\* C36: a call whose session establishment has failed after it obtained a
\* socket has no open socket left: the socket is destroyed.
C36_FailedLeavesNoSocket ==
    \A r \in Requests :
        pc[r] = "failed" /\ socket[r].state # "none" =>
            socket[r].state = "destroyed"

\* C37: once the AbortSignal the caller passed to fetchAdapter as
\* init.signal has aborted while the request was in flight, the request is
\* no longer open and the call does not resolve, with init.timeout and
\* without.
C37_InitSignalAborts ==
    \A r \in Requests :
        signal[r].initAbortedIn = "in flight" =>
            /\ stream[r].state \in {"destroyed", "closed"}
            /\ result[r].state # "resolved"

\* C38: once a call through the fetch layer with init.timeout has settled,
\* its timer does not fire: the controller's signal does not abort, the
\* request is not destroyed and close() is not called on the session.
C38_TimerCancelledOnExit ==
    [][\A r \in Requests :
          /\ call[r].via = "fetchAdapter" /\ call[r].timeout # 0
          /\ Settled(r)
          => /\ signal'[r].aborted = signal[r].aborted
             /\ stream'[r].destroyedBy = stream[r].destroyedBy
             /\ session'[r].closeCalls = session[r].closeCalls]_vars

\* a call with init.timeout has resolved, its response was read, and the
\* signal has not aborted
C38_Witness ==
    \E r \in Requests :
        /\ call[r].via = "fetchAdapter" /\ call[r].timeout # 0
        /\ result[r].state = "resolved"
        /\ fetch[r].history # <<>>
        /\ ~signal[r].aborted

====
